---- MODULE Spec2Model ----
(***************************************************************************)
(* Agent task-distribution subsystem of AURORA-QB: the broker lists of     *)
(* TaskQueue, the persisted task records of AgentTaskManager, the worker   *)
(* loop of AgentOrchestrator, the delayed retries of RetryManager, the     *)
(* listener of EventBus, and the RetryConfig functions with                *)
(* retry_with_backoff.                                                     *)
(*                                                                         *)
(* Every await of the Python code is a point at which another coroutine    *)
(* may run; a worker is therefore a small state machine (pc) whose steps   *)
(* are the stretches of code between the awaits that matter.  The status   *)
(* names PENDING and IN_PROGRESS and the agent types are the ones the      *)
(* code under agents/ uses.  Each part of the subsystem has a              *)
(* specification of its own over the same variables.                       *)
(***************************************************************************)
EXTENDS Integers, Sequences, FiniteSets, TLC

(* ------------------------------ bounds -------------------------------- *)

\* Task records that submit_task may create in one run.
MaxTasks == 2
\* Worker coroutines of the pool (max_workers of the orchestrator).
NumWorkers == 2
\* Messages ever pushed onto the main queue in one run.
MaxEnq == 3
\* Delayed retries that may be pending at the same time.
MaxPending == 2
\* Largest max_attempts of the RetryConfig the retry calls are given.
MaxPolicy == 2

TaskIds == 1..MaxTasks
Workers == 1..NumWorkers
Policies == 0..MaxPolicy
\* Handlers that may be subscribed to the event channel.
NumHandlers == 2
\* start() calls of the event bus that may be suspended at the same time.
MaxStarts == 2
\* Listener tasks the event bus creates in one run.
MaxListeners == 2
\* Events published on the channel in one run.
MaxEvents == 2
\* Entries direct move_to_dlq calls may leave on the dead-letter queue.
MaxDlq == 2
\* Largest attempt number should_retry and calculate_delay are called with.
MaxAttempt == 3
\* A timestamp column holds the number of the write that set it (0: NULL),
\* counted up to this many.
MaxStamp == 2
\* Broker calls one TaskQueue operation makes at most (get_queue_stats).
MaxCalls == 3
\* max_workers of the orchestrator whose start and stop calls overlap; the
\* worker coroutines it creates take their identities from Workers
PoolSize == 1
\* Which broker call of an operation fails; 0: none does.
Faults == 0..MaxCalls
Handlers == 1..NumHandlers
Listeners == 1..MaxListeners
\* Priorities a producer may give a task (CreateTaskRequest allows 0..10).
Priorities == {0, 1}

(* ----------------------------- constants ------------------------------ *)

MAIN_QUEUE == "agent:tasks:main"
PROCESSING_QUEUE == "agent:tasks:processing"
DEAD_LETTER_QUEUE == "agent:tasks:dlq"
QueueNames == {MAIN_QUEUE, PROCESSING_QUEUE, DEAD_LETTER_QUEUE}

\* The values of AgentType tasks are created with.
AgentTypes == {"X"}

\* create_task(..., priority: int = 0)
DefaultPriority == 0

PENDING == "PENDING"
IN_PROGRESS == "IN_PROGRESS"
COMPLETED == "COMPLETED"
FAILED == "FAILED"
\* No row with this id (never created, or deleted).
ABSENT == "ABSENT"

\* error_message None
NoError == "None"
\* str(e) of a handler failure
HandlerError == "handler error"
\* str(e) of an exception raised without a message
EmptyError == ""
UnknownError == "Unknown error"
\* str(e) of a database failure
StoreError == "store error"
\* validate_input or process returned without raising
Ok == "ok"
\* What a handler call may do: return, or raise with a text.
Outcomes == {Ok, HandlerError, EmptyError}

\* Event types _process_task publishes.
TASK_COMPLETED == "task_completed"
TASK_FAILED == "task_failed"
NoEvent == "none"
NoAgentError == "No agent registered for type"

\* datetime.utcnow().isoformat() in a queue entry; the clock is not read.
UtcNow == "utcnow"

NoMsg == [task_id |-> 0, agent_type |-> "", priority |-> 0, enqueued_at |-> 0]
NoRow == [status |-> ABSENT, agent_type |-> "", priority |-> 0,
          retry_count |-> 0, error_message |-> NoError,
          created_at |-> 0, started_at |-> 0, completed_at |-> 0]
NoCall == [task |-> 0, result |-> FALSE]
ZeroStats == [main_queue |-> 0, processing_queue |-> 0, dead_letter_queue |-> 0]
NoOp == [op |-> "none", faulted |-> FALSE, raised |-> FALSE, value |-> "none",
         stats |-> ZeroStats]

\* Delays are floats in seconds; the model counts them in ticks of 1/256 s,
\* in which every value it computes is exact.
Second == 256
\* exponential_base is held in halves: 1 is 0.5, 2 is 1.0, 4 is 2.0.
Half == 2
\* random.random() is drawn in quarters: r stands for r/4, so that
\* 0.25 * random.random() is r/16.
Randoms == 0..3
Sixteenth == 16

\* RetryManager.DEFAULT_CONFIG
DEFAULT_CONFIG == [max_attempts |-> 3, initial_delay |-> 1, max_delay |-> 300,
                   exponential_base |-> 2 * Half, jitter |-> TRUE]

\* The RetryConfig objects the policy calls are made on.
RetryConfigs ==
    [max_attempts : Policies, initial_delay : {1, 2}, max_delay : {1, 3, 300},
     exponential_base : {1, 2, 4}, jitter : BOOLEAN]

Attempts == 0..MaxAttempt

NoCalc == [fn |-> "none", attempt |-> 0, ok |-> FALSE, out |-> 0,
           prev_attempt |-> -1, prev_out |-> 0]

NoRwb == [pc |-> "none", attempt |-> 0, hist |-> <<>>, kind |-> "none",
          value |-> 0, slept |-> <<>>]

(* ------------------------------- state -------------------------------- *)

VARIABLES
    store,        \* agent_tasks table: task id -> row
    nextId,       \* next primary key
    broker,       \* Redis: list name -> list of entries (head first)
    nextSeq,      \* ordinal of the next enqueue_task call (enqueued_at)
    lastPopped,   \* enqueued_at of the message BLPOP took last
    lastReturned, \* greatest enqueued_at dequeue_task has returned
    agents,       \* AgentOrchestrator.agents: registered agent types
    running,      \* AgentOrchestrator.running
    pc,           \* worker -> position in _worker / _process_task
    wmsg,         \* worker -> task_data it holds
    wout,         \* worker -> how processing of its message went
    werr,         \* worker -> task.error_message of its loaded ORM object
    nComplete,    \* worker -> complete_task calls for the current message
    nDlq,         \* worker -> move_to_dlq calls for the current message
    config,       \* max_attempts of the RetryConfig given to the retry calls
    timers,       \* task id -> _delayed_retry coroutines pending for it
    lastRetry,    \* task and result of the last RetryManager.retry_task call
    wpub,         \* worker -> event _process_task published for its message
    wtrace,       \* worker -> statuses execute has written for its message
    shutdownEvent,\* AgentOrchestrator._shutdown_event is set
    stopPc,       \* position of the AgentOrchestrator.stop call
    workerTasks,  \* AgentOrchestrator.workers: the worker coroutines in the list
    gathers,      \* the worker lists the suspended stop calls wait for in gather
    handlers,     \* EventBus.handlers[channel]: the handler list, in order
    channelKey,   \* the channel is a key of EventBus.handlers
    busRunning,   \* EventBus.running
    listenerTask, \* EventBus._listener_task (0: None)
    listeners,    \* listener task -> position in _listen
    lidx,         \* listener -> list index of the handler it is invoking
    linv,         \* listener -> handler -> invocations for its current message
    ldue,         \* listener -> handlers subscribed all through the dispatch
    ldone,        \* listener -> the dispatch of its current message is over
    startCalls,   \* EventBus.start calls suspended before the listener is created
    busStop,      \* position of the EventBus.stop call
    subscribed,   \* the pub/sub connection is subscribed to the channel
    pubsub,       \* redis_client._pubsub is set: a pub/sub connection exists
    inbox,        \* messages received on the channel and not yet read
    nPublished,   \* events published on the channel so far
    stopped,      \* EventBus.stop has returned and start was not called since
    marked,       \* the handler call _listener_task awaits began before stop
    aborted,      \* a handler call in flight at stop was ended by cancellation
    lastOp,       \* TaskQueue operation run against a failing broker, its outcome
    policy,       \* the RetryConfig object the policy calls are made on
    calc,         \* last should_retry / calculate_delay call and its result
    rwb,          \* the retry_with_backoff call: position, invocations, outcome
    retrying      \* task id -> retry_count read by each AgentTaskManager.retry_task
                  \* call suspended between get_task and commit

storeVars == <<store, nextId>>
brokerVars == <<broker, nextSeq, lastPopped, lastReturned>>
workerVars == <<pc, wmsg, wout, werr, nComplete, nDlq, wpub, wtrace>>
retryVars == <<config, timers, lastRetry>>
stopVars == <<shutdownEvent, stopPc, workerTasks, gathers>>
busVars == <<handlers, channelKey, marked, busRunning, listenerTask, listeners,
             lidx, linv, ldue, ldone, startCalls, busStop, subscribed, pubsub,
             inbox, nPublished, stopped, aborted>>
faultVars == <<lastOp>>
policyVars == <<policy, calc, rwb>>
vars == <<store, nextId, broker, nextSeq, lastPopped, lastReturned, agents,
          running, pc, wmsg, wout, werr, nComplete, nDlq, config, timers, lastRetry,
          wpub, wtrace, shutdownEvent, stopPc, workerTasks, gathers, handlers,
          channelKey, marked,
          busRunning, listenerTask,
          listeners, lidx, linv, ldue, ldone, startCalls, busStop, subscribed,
          pubsub, inbox, nPublished, stopped, aborted, lastOp, policy, calc, rwb,
          retrying>>

(* ------------------------------ broker -------------------------------- *)

\* LPUSH instead of RPUSH: the entry goes to the head.
RPush_AtHead(q, e) == <<e>> \o q

\* RPUSH: append at the tail.
RPush(q, e) == Append(q, e)

\* RedisClient.enqueue: RPUSH of the entry onto the named list.
RedisEnqueue(b, name, e) == [b EXCEPT ![name] = RPush(b[name], e)]

\* DEL key: the key and whatever it holds are gone; other keys are untouched.
RedisDelete(b, key) == [k \in DOMAIN b |-> IF k = key THEN <<>> ELSE b[k]]

\* The key complete_task deletes: f"task:processing:{task_id}".
ProcessingKey(t) == "task:processing:" \o ToString(t)

\* peek_queue + the scan of complete_task: is there an entry for the task?
HasEntry(q, t) == \E i \in 1..Len(q) : q[i].task_id = t

(* ------------------------------ TaskQueue ----------------------------- *)

\* enqueue_task: the QueueMessage pushed onto the main queue.
QueueMessage(t, a, p, at) ==
    [task_id |-> t, agent_type |-> a, priority |-> p, enqueued_at |-> at]

EnqueueTask(b, t, a, p, at) == RedisEnqueue(b, MAIN_QUEUE, QueueMessage(t, a, p, at))

\* complete_task: scan the processing list; on a match DEL the key
\* task:processing:<id>.
CompleteTask(b, t) ==
    IF HasEntry(b[PROCESSING_QUEUE], t) THEN RedisDelete(b, ProcessingKey(t)) ELSE b

\* The entry is pushed at the head of the dead-letter list.
MoveToDlq_AtHead(b, t, err) ==
    [b EXCEPT ![DEAD_LETTER_QUEUE] =
        RPush_AtHead(@, [task_id |-> t, error |-> err, failed_at |-> UtcNow])]

\* move_to_dlq: append {task_id, error, failed_at} to the dead-letter list.
MoveToDlq(b, t, err) ==
    RedisEnqueue(b, DEAD_LETTER_QUEUE,
                 [task_id |-> t, error |-> err, failed_at |-> UtcNow])

\* get_queue_stats
QueueStats == [main_queue |-> Len(broker[MAIN_QUEUE]),
               processing_queue |-> Len(broker[PROCESSING_QUEUE]),
               dead_letter_queue |-> Len(broker[DEAD_LETTER_QUEUE])]

(* -------------------------- AgentTaskManager -------------------------- *)

\* `if error_message:` -- None and the empty string are both false.
Given(err) == err # NoError /\ err # EmptyError

\* datetime.utcnow() written to a timestamp column that holds n.
Stamp(n) == IF n < MaxStamp THEN n + 1 ELSE n

\* update_task_status: UPDATE ... WHERE id = t; started_at is written with
\* IN_PROGRESS, completed_at with COMPLETED and FAILED, error_message only
\* when given.
UpdateTaskStatus(s, t, status, err) ==
    IF s[t].status = ABSENT THEN s
    ELSE [s EXCEPT ![t].status = status,
                   ![t].started_at = IF status = IN_PROGRESS THEN Stamp(@) ELSE @,
                   ![t].completed_at = IF status \in {COMPLETED, FAILED}
                                       THEN Stamp(@) ELSE @,
                   ![t].error_message = IF Given(err) THEN err ELSE @]

(* ------------------------------ RetryConfig --------------------------- *)

\* attempt <= max_attempts instead of attempt < max_attempts.
ShouldRetry_OffByOne(attempt, max_attempts) == attempt <= max_attempts

\* should_retry
ShouldRetry(attempt, max_attempts) == attempt < max_attempts

Min(a, b) == IF a <= b THEN a ELSE b

\* b ** n
RECURSIVE Pow(_, _)
Pow(b, n) == IF n = 0 THEN 1 ELSE b * Pow(b, n - 1)

\* The exponent is attempt + 1: the attempt is taken as one-indexed.
CalculateDelay_OneIndexed(p, attempt, r) ==
    LET raw == (p.initial_delay * Second * Pow(p.exponential_base, attempt + 1))
                   \div Pow(Half, attempt + 1)
        delay == Min(raw, p.max_delay * Second)
    IN IF p.jitter THEN delay + (delay * r) \div Sixteenth ELSE delay

\* calculate_delay, in ticks: initial_delay * base ** attempt, capped at
\* max_delay; with jitter, delay * 0.25 * random.random() is added.
CalculateDelay(p, attempt, r) ==
    LET raw == (p.initial_delay * Second * Pow(p.exponential_base, attempt))
                   \div Pow(Half, attempt)
        delay == Min(raw, p.max_delay * Second)
    IN IF p.jitter THEN delay + (delay * r) \div Sixteenth ELSE delay

(* ------------------------------- Init --------------------------------- *)

InitSystem ==
    /\ store = [t \in TaskIds |-> NoRow]
    /\ nextId = 1
    /\ broker = [q \in QueueNames |-> <<>>]
    /\ nextSeq = 1
    /\ lastPopped = 0
    /\ lastReturned = 0
    /\ agents = {}
    /\ running = FALSE
    /\ pc = [w \in Workers |-> "off"]
    /\ wmsg = [w \in Workers |-> NoMsg]
    /\ wout = [w \in Workers |-> "none"]
    /\ werr = [w \in Workers |-> NoError]
    /\ nComplete = [w \in Workers |-> 0]
    /\ nDlq = [w \in Workers |-> 0]
    /\ config \in Policies
    /\ timers = [t \in TaskIds |-> 0]
    /\ lastRetry = NoCall
    /\ wpub = [w \in Workers |-> NoEvent]
    /\ wtrace = [w \in Workers |-> <<>>]
    /\ shutdownEvent = FALSE
    /\ stopPc = "none"
    /\ workerTasks = {}
    /\ gathers = {}
    /\ handlers = <<>>
    /\ channelKey = FALSE
    /\ marked = FALSE
    /\ busRunning = FALSE
    /\ listenerTask = 0
    /\ listeners = [l \in Listeners |-> "none"]
    /\ lidx = [l \in Listeners |-> 0]
    /\ linv = [l \in Listeners |-> [h \in Handlers |-> 0]]
    /\ ldue = [l \in Listeners |-> {}]
    /\ ldone = [l \in Listeners |-> FALSE]
    /\ startCalls = 0
    /\ busStop = "none"
    /\ subscribed = FALSE
    /\ pubsub = FALSE
    /\ inbox = 0
    /\ nPublished = 0
    /\ stopped = FALSE
    /\ aborted = FALSE
    /\ lastOp = NoOp
    /\ calc = NoCalc
    /\ rwb = NoRwb
    /\ retrying = [t \in TaskIds |-> <<>>]

\* The state after construction; the policy object is DEFAULT_CONFIG.
Init == InitSystem /\ policy = DEFAULT_CONFIG

\* The policy calls are made on any RetryConfig object.
InitPolicy == InitSystem /\ policy \in RetryConfigs /\ config = policy.max_attempts

(* --------------------------- AgentOrchestrator ------------------------ *)

\* register_agent
RegisterAgent(a) ==
    /\ a \notin agents
    /\ agents' = agents \cup {a}
    /\ UNCHANGED <<storeVars, brokerVars, running, workerVars, retryVars,
                   stopVars, busVars, faultVars, policyVars, retrying>>

\* start: running = True, the shutdown event is cleared and max_workers worker
\* coroutines are created; each enters its loop and blocks in dequeue_task
\* (pc "idle").  start is not called while a stop call waits for the workers.
Start ==
    /\ ~running
    /\ stopPc # "waiting"
    /\ running' = TRUE
    /\ shutdownEvent' = FALSE
    /\ stopPc' = "none"
    /\ pc' = [w \in Workers |-> "idle"]
    /\ UNCHANGED <<storeVars, brokerVars, agents, wmsg, wout, werr, nComplete,
                   nDlq, wpub, wtrace, retryVars, workerTasks, gathers, busVars,
                   faultVars, policyVars, retrying>>

\* submit_task / create_task: INSERT the row, enqueue its message.
SubmitTask(a, p) ==
    /\ nextId <= MaxTasks
    /\ nextSeq <= MaxEnq
    /\ store' = [store EXCEPT ![nextId] =
                    [status |-> PENDING, agent_type |-> a, priority |-> p,
                     retry_count |-> 0, error_message |-> NoError,
                     created_at |-> 1, started_at |-> 0, completed_at |-> 0]]
    /\ nextId' = nextId + 1
    /\ broker' = EnqueueTask(broker, nextId, a, p, nextSeq)
    /\ nextSeq' = nextSeq + 1
    /\ UNCHANGED <<lastPopped, lastReturned, agents, running, workerVars,
                   retryVars, stopVars, busVars, faultVars,
                   policyVars, retrying>>

\* _worker blocked in dequeue_task, first half.  BLPOP takes the head of the
\* main list as soon as there is one, whatever self.running has become since
\* the loop condition was tested; the coroutine then awaits the push of
\* line 94.
WorkerPop(w) ==
    /\ pc[w] = "idle"
    /\ broker[MAIN_QUEUE] # <<>>
    /\ wmsg' = [wmsg EXCEPT ![w] = Head(broker[MAIN_QUEUE])]
    /\ broker' = [broker EXCEPT ![MAIN_QUEUE] = Tail(@)]
    /\ lastPopped' = Head(broker[MAIN_QUEUE]).enqueued_at
    /\ pc' = [pc EXCEPT ![w] = "popped"]
    /\ UNCHANGED <<storeVars, nextSeq, lastReturned, agents, running, wout,
                   werr, nComplete, nDlq, wpub, wtrace, retryVars, stopVars,
                   busVars, faultVars, policyVars, retrying>>

\* dequeue_task, second half: the message goes onto the processing list and
\* is returned to _worker.
WorkerPush(w) ==
    /\ pc[w] = "popped"
    /\ broker' = RedisEnqueue(broker, PROCESSING_QUEUE, wmsg[w])
    /\ lastReturned' = IF wmsg[w].enqueued_at > lastReturned
                       THEN wmsg[w].enqueued_at ELSE lastReturned
    /\ pc' = [pc EXCEPT ![w] = "dequeued"]
    /\ UNCHANGED <<storeVars, nextSeq, lastPopped, agents, running, wmsg, wout,
                   werr, nComplete, nDlq, wpub, wtrace, retryVars, stopVars,
                   busVars, faultVars, policyVars, retrying>>

\* _process_task up to agent.execute: get_agent, then get_task.  A missing
\* agent raises before the inner try, so the outer handler moves the task to
\* the DLQ.  "Task not found" is raised inside the inner try, whose finally
\* clause ends in break: the exception is discarded there and the outer
\* handler never sees it.
WorkerLookup(w) ==
    LET m == wmsg[w] IN
    /\ pc[w] = "dequeued"
    /\ IF m.agent_type \notin agents
       THEN /\ broker' = MoveToDlq(broker, m.task_id, NoAgentError)
            /\ nDlq' = [nDlq EXCEPT ![w] = @ + 1]
            /\ wout' = [wout EXCEPT ![w] = "no_agent"]
            /\ pc' = [pc EXCEPT ![w] = "done"]
            /\ UNCHANGED werr
       ELSE IF store[m.task_id].status = ABSENT
       THEN /\ wout' = [wout EXCEPT ![w] = "no_task"]
            /\ pc' = [pc EXCEPT ![w] = "done"]
            /\ UNCHANGED <<broker, nDlq, werr>>
       ELSE /\ werr' = [werr EXCEPT ![w] = store[m.task_id].error_message]
            /\ pc' = [pc EXCEPT ![w] = "validate"]
            /\ UNCHANGED <<broker, nDlq, wout>>
    /\ UNCHANGED <<storeVars, nextSeq, lastPopped, lastReturned, agents,
                   running, wmsg, nComplete, wpub, wtrace, retryVars, stopVars,
                   busVars, faultVars, policyVars, retrying>>

\* BaseAgent.execute, lines 85-94 and 125-145: validate_input, then the
\* status becomes IN_PROGRESS; if validate_input raises, the status becomes
\* FAILED with str(e) and execute returns False.
WorkerValidate(w, r) ==
    LET t == wmsg[w].task_id IN
    /\ pc[w] = "validate"
    /\ IF r = Ok
       THEN /\ store' = UpdateTaskStatus(store, t, IN_PROGRESS, NoError)
            /\ wtrace' = [wtrace EXCEPT ![w] = Append(@, IN_PROGRESS)]
            /\ pc' = [pc EXCEPT ![w] = "process"]
            /\ UNCHANGED <<wout, werr>>
       ELSE /\ store' = UpdateTaskStatus(store, t, FAILED, r)
            /\ wtrace' = [wtrace EXCEPT ![w] = Append(@, FAILED)]
            /\ wout' = [wout EXCEPT ![w] = "invalid"]
            /\ werr' = [werr EXCEPT ![w] = IF Given(r) THEN r ELSE @]
            /\ pc' = [pc EXCEPT ![w] = "route"]
    /\ UNCHANGED <<nextId, brokerVars, agents, running, wmsg, nComplete, nDlq,
                   wpub, retryVars, stopVars, busVars, faultVars,
                   policyVars, retrying>>

\* BaseAgent.execute, lines 104-145: process returns and the status becomes
\* COMPLETED, or it raises and the status becomes FAILED with str(e).
WorkerProcess(w, r) ==
    LET t == wmsg[w].task_id IN
    /\ pc[w] = "process"
    /\ IF r = Ok
       THEN /\ store' = UpdateTaskStatus(store, t, COMPLETED, NoError)
            /\ wtrace' = [wtrace EXCEPT ![w] = Append(@, COMPLETED)]
            /\ wout' = [wout EXCEPT ![w] = "success"]
            /\ UNCHANGED werr
       ELSE /\ store' = UpdateTaskStatus(store, t, FAILED, r)
            /\ wtrace' = [wtrace EXCEPT ![w] = Append(@, FAILED)]
            /\ wout' = [wout EXCEPT ![w] = "failed"]
            /\ werr' = [werr EXCEPT ![w] = IF Given(r) THEN r ELSE @]
    /\ pc' = [pc EXCEPT ![w] = "route"]
    /\ UNCHANGED <<nextId, brokerVars, agents, running, wmsg, nComplete, nDlq,
                   wpub, retryVars, stopVars, busVars, faultVars,
                   policyVars, retrying>>

\* task_failed whatever execute returned.
EventFor_AlwaysFailed(out) == TASK_FAILED

\* _process_task, lines 223-248: the event published after execute.
EventFor(out) == IF out = "success" THEN TASK_COMPLETED ELSE TASK_FAILED

\* _process_task, lines 223-248: complete_task and the task_completed event
\* on success; move_to_dlq with task.error_message or "Unknown error" and the
\* task_failed event on failure.
WorkerRoute(w) ==
    LET t == wmsg[w].task_id IN
    /\ pc[w] = "route"
    /\ IF wout[w] = "success"
       THEN /\ broker' = CompleteTask(broker, t)
            /\ nComplete' = [nComplete EXCEPT ![w] = @ + 1]
            /\ wpub' = [wpub EXCEPT ![w] = EventFor(wout[w])]
            /\ UNCHANGED nDlq
       ELSE /\ broker' = MoveToDlq(broker, t,
                            IF werr[w] # NoError THEN werr[w] ELSE UnknownError)
            /\ nDlq' = [nDlq EXCEPT ![w] = @ + 1]
            /\ wpub' = [wpub EXCEPT ![w] = EventFor(wout[w])]
            /\ UNCHANGED nComplete
    /\ pc' = [pc EXCEPT ![w] = "done"]
    /\ UNCHANGED <<storeVars, nextSeq, lastPopped, lastReturned, agents,
                   running, wmsg, wout, werr, wtrace, retryVars, stopVars,
                   busVars, faultVars, policyVars, retrying>>

\* _process_task returns and the worker is back at `while self.running`: it
\* blocks in dequeue_task again, or leaves the loop.
WorkerDone(w) ==
    /\ pc[w] = "done"
    /\ pc' = [pc EXCEPT ![w] = IF running THEN "idle" ELSE "exited"]
    /\ wmsg' = [wmsg EXCEPT ![w] = NoMsg]
    /\ wout' = [wout EXCEPT ![w] = "none"]
    /\ werr' = [werr EXCEPT ![w] = NoError]
    /\ nComplete' = [nComplete EXCEPT ![w] = 0]
    /\ nDlq' = [nDlq EXCEPT ![w] = 0]
    /\ wpub' = [wpub EXCEPT ![w] = NoEvent]
    /\ wtrace' = [wtrace EXCEPT ![w] = <<>>]
    /\ UNCHANGED <<storeVars, brokerVars, agents, running, retryVars, stopVars,
                   busVars, faultVars, policyVars, retrying>>

\* The worker goes on waiting whatever the shutdown event and self.running say.
WorkerTimeout_KeepsWaiting(w) ==
    /\ pc[w] = "idle"
    /\ broker[MAIN_QUEUE] = <<>>
    /\ UNCHANGED vars

\* _worker, lines 146-152: dequeue_task times out on an empty main queue and
\* returns None; the worker leaves the loop when the shutdown event is set
\* or self.running is false, and blocks in dequeue_task again otherwise.
WorkerTimeout(w) ==
    /\ pc[w] = "idle"
    /\ broker[MAIN_QUEUE] = <<>>
    /\ pc' = [pc EXCEPT ![w] = IF shutdownEvent \/ ~running THEN "exited" ELSE "idle"]
    /\ UNCHANGED <<storeVars, brokerVars, agents, running, wmsg, wout, werr,
                   nComplete, nDlq, wpub, wtrace, retryVars, stopVars, busVars,
                   faultVars, policyVars, retrying>>

\* stop, lines 113-119: running = False and the shutdown event is set; the
\* call then waits in gather for the worker coroutines.
Stop ==
    /\ running
    /\ running' = FALSE
    /\ shutdownEvent' = TRUE
    /\ stopPc' = "waiting"
    /\ UNCHANGED <<storeVars, brokerVars, agents, workerVars, retryVars,
                   workerTasks, gathers, busVars, faultVars, policyVars,
                   retrying>>

\* stop, lines 122-129: gather returns once every worker coroutine has
\* ended; the call returns.
StopReturn ==
    /\ stopPc = "waiting"
    /\ \A w \in Workers : pc[w] = "exited"
    /\ stopPc' = "returned"
    /\ UNCHANGED <<storeVars, brokerVars, agents, running, workerVars,
                   retryVars, shutdownEvent, workerTasks, gathers, busVars,
                   faultVars, policyVars, retrying>>

(* ------------------ overlapping start and stop calls ------------------ *)

\* Identities no worker coroutine holds: never created, or ended and no
\* longer in self.workers nor in a list a stop call waits for.
FreeWorkers ==
    {w \in Workers : /\ pc[w] \in {"off", "exited"}
                     /\ w \notin workerTasks
                     /\ \A g \in gathers : w \notin g}

\* start, lines 100-102: `for i in range(self.max_workers)` creates
\* max_workers worker coroutines, whatever self.workers holds already.
Spawned(free) == {ws \in SUBSET free : Cardinality(ws) = PoolSize}

\* start called at any time, a stop call waiting in gather or not: it
\* returns at once when self.running is set; otherwise it sets running,
\* clears the shutdown event and appends max_workers new worker coroutines
\* to self.workers.  redis_client.connect() does not suspend when the
\* client exists, so the call is one step.
StartPool ==
    /\ ~running
    /\ running' = TRUE
    /\ shutdownEvent' = FALSE
    /\ stopPc' = IF gathers = {} THEN "none" ELSE "waiting"
    /\ \E ws \in Spawned(FreeWorkers) :
           /\ pc' = [w \in Workers |-> IF w \in ws THEN "idle" ELSE pc[w]]
           /\ workerTasks' = workerTasks \cup ws
    /\ UNCHANGED <<storeVars, brokerVars, agents, wmsg, wout, werr, nComplete,
                   nDlq, wpub, wtrace, retryVars, gathers, busVars, faultVars,
                   policyVars, retrying>>

\* stop, lines 113-123: returns at once when self.running is false;
\* otherwise running = False, the shutdown event is set and, when
\* self.workers is not empty, the call waits in gather for the coroutines
\* the list holds at that moment.
StopPool ==
    /\ running
    /\ running' = FALSE
    /\ shutdownEvent' = TRUE
    /\ gathers' = IF workerTasks = {} THEN gathers ELSE gathers \cup {workerTasks}
    /\ stopPc' = IF gathers' = {} THEN "returned" ELSE "waiting"
    /\ UNCHANGED <<storeVars, brokerVars, agents, workerVars, retryVars,
                   workerTasks, busVars, faultVars, policyVars, retrying>>

\* stop, lines 123-129: gather returns once every coroutine it was given
\* has ended; self.workers.clear() empties the list, the coroutines a
\* later start appended included, and the call returns.
StopPoolReturn(g) ==
    /\ g \in gathers
    /\ \A w \in g : pc[w] = "exited"
    /\ gathers' = gathers \ {g}
    /\ workerTasks' = {}
    /\ stopPc' = IF gathers' = {} THEN "returned" ELSE "waiting"
    /\ UNCHANGED <<storeVars, brokerVars, agents, running, workerVars,
                   retryVars, shutdownEvent, busVars, faultVars,
                   policyVars, retrying>>

(* ----------------- the worker under infrastructure failures ----------- *)

\* The worker leaves its loop whenever dequeue_task gave it nothing.
AfterNone_Exits == "exited"

\* _worker, lines 143-152, after dequeue_task returned None: break when the
\* shutdown event is set, otherwise continue to `while self.running`.
AfterNone == IF shutdownEvent \/ ~running THEN "exited" ELSE "idle"

\* dequeue_task with its broker call f failing (1: BLPOP, 2: the push onto
\* the processing list, the message already taken): the exception is caught
\* inside dequeue_task, which returns None.
DequeueFault(w, f) ==
    /\ \/ f = 1 /\ pc[w] = "idle"
       \/ f = 2 /\ pc[w] = "popped"
    /\ pc' = [pc EXCEPT ![w] = AfterNone]
    /\ wmsg' = [wmsg EXCEPT ![w] = NoMsg]
    /\ UNCHANGED <<storeVars, brokerVars, agents, running, wout, werr,
                   nComplete, nDlq, wpub, wtrace, retryVars, stopVars, busVars,
                   faultVars, policyVars, retrying>>

\* _process_task, lines 212-215: get_db fails to give a session; the
\* exception reaches the outer handler, which moves the task to the DLQ.
SessionFault(w) ==
    /\ pc[w] = "dequeued"
    /\ wmsg[w].agent_type \in agents
    /\ broker' = MoveToDlq(broker, wmsg[w].task_id, StoreError)
    /\ nDlq' = [nDlq EXCEPT ![w] = @ + 1]
    /\ wout' = [wout EXCEPT ![w] = "error"]
    /\ pc' = [pc EXCEPT ![w] = "done"]
    /\ UNCHANGED <<storeVars, nextSeq, lastPopped, lastReturned, agents,
                   running, wmsg, werr, nComplete, wpub, wtrace, retryVars,
                   stopVars, busVars, faultVars, policyVars, retrying>>

\* _process_task, lines 213-218 and 250-252: get_task raises inside the
\* inner try; the break of its finally clause discards the exception.
LookupFault(w) ==
    /\ pc[w] = "dequeued"
    /\ wmsg[w].agent_type \in agents
    /\ wout' = [wout EXCEPT ![w] = "store_error"]
    /\ pc' = [pc EXCEPT ![w] = "done"]
    /\ UNCHANGED <<storeVars, brokerVars, agents, running, wmsg, werr,
                   nComplete, nDlq, wpub, wtrace, retryVars, stopVars, busVars,
                   faultVars, policyVars, retrying>>

\* BaseAgent.execute with the update_task_status call of the step failing:
\* the failure is caught inside update_task_status (rollback, False) and
\* execute goes on as if the row had been written.
ExecuteStoreFault(w, r) ==
    /\ pc[w] \in {"validate", "process"}
    /\ wout' = [wout EXCEPT ![w] =
                   IF r # Ok THEN (IF pc[w] = "validate" THEN "invalid" ELSE "failed")
                   ELSE IF pc[w] = "process" THEN "success" ELSE @]
    /\ pc' = [pc EXCEPT ![w] =
                 IF r = Ok /\ pc[w] = "validate" THEN "process" ELSE "route"]
    /\ UNCHANGED <<storeVars, brokerVars, agents, running, wmsg, werr,
                   nComplete, nDlq, wpub, wtrace, retryVars, stopVars, busVars,
                   faultVars, policyVars, retrying>>

\* _process_task, lines 223-248, with the broker failing: complete_task or
\* move_to_dlq catches the failure and returns False; the event is
\* published when published holds, and lost inside _publish_event otherwise.
RouteFault(w, published) ==
    /\ pc[w] = "route"
    /\ IF wout[w] = "success"
       THEN nComplete' = [nComplete EXCEPT ![w] = @ + 1] /\ UNCHANGED nDlq
       ELSE nDlq' = [nDlq EXCEPT ![w] = @ + 1] /\ UNCHANGED nComplete
    /\ wpub' = [wpub EXCEPT ![w] = IF published THEN EventFor(wout[w]) ELSE @]
    /\ pc' = [pc EXCEPT ![w] = "done"]
    /\ UNCHANGED <<storeVars, brokerVars, agents, running, wmsg, wout, werr,
                   wtrace, retryVars, stopVars, busVars, faultVars, policyVars,
                   retrying>>

\* _process_task, lines 223-265, with db.close() raising in the finally
\* clause: the break is not reached and the exception goes to the outer
\* handler, which calls move_to_dlq after the routing already done.
CloseFault(w) ==
    LET t == wmsg[w].task_id
        routed == IF wout[w] = "success" THEN CompleteTask(broker, t)
                  ELSE MoveToDlq(broker, t, IF werr[w] # NoError THEN werr[w]
                                            ELSE UnknownError)
    IN
    /\ pc[w] = "route"
    /\ broker' = MoveToDlq(routed, t, StoreError)
    /\ nComplete' = [nComplete EXCEPT ![w] =
                        IF wout[w] = "success" THEN @ + 1 ELSE @]
    /\ nDlq' = [nDlq EXCEPT ![w] =
                   IF wout[w] = "success" THEN @ + 1 ELSE @ + 2]
    /\ wpub' = [wpub EXCEPT ![w] = EventFor(wout[w])]
    /\ pc' = [pc EXCEPT ![w] = "done"]
    /\ UNCHANGED <<storeVars, nextSeq, lastPopped, lastReturned, agents,
                   running, wmsg, wout, werr, wtrace, retryVars, stopVars,
                   busVars, faultVars, policyVars, retrying>>

(* ------------------------------ RetryManager -------------------------- *)

\* _delayed_retry coroutines created and not yet ended: asleep, or suspended
\* inside AgentTaskManager.retry_task.
Pending ==
    LET RECURSIVE Sum(_)
        Sum(S) == IF S = {} THEN 0
                  ELSE LET t == CHOOSE x \in S : TRUE
                       IN timers[t] + Len(retrying[t]) + Sum(S \ {t})
    IN Sum(TaskIds)

\* RetryManager.retry_task, lines 117-138: would the call schedule a retry?
\* The task must exist and should_retry must hold for its retry_count.
RetryEligible(t) ==
    /\ store[t].status # ABSENT
    /\ ShouldRetry(store[t].retry_count, config)

\* RetryManager.retry_task: when eligible, a _delayed_retry coroutine is
\* created for the task and the call returns True; otherwise False.
RetryTask(t) ==
    /\ RetryEligible(t) => Pending < MaxPending
    /\ timers' = IF RetryEligible(t) THEN [timers EXCEPT ![t] = @ + 1] ELSE timers
    /\ lastRetry' = [task |-> t, result |-> RetryEligible(t)]
    /\ UNCHANGED <<storeVars, brokerVars, agents, running, workerVars, config,
                   stopVars, busVars, faultVars, policyVars, retrying>>

\* The row is reset without counting the retry.
RetryRow_KeepsCount(r) ==
    [r EXCEPT !.status = PENDING, !.error_message = NoError]

\* AgentTaskManager.retry_task, lines 379-392, on the row: retry_count + 1,
\* PENDING, error_message None.
RetryRow(r) ==
    [r EXCEPT !.retry_count = @ + 1, !.status = PENDING, !.error_message = NoError]

\* _delayed_retry after its sleep: AgentTaskManager.retry_task.  Only a
\* FAILED task is touched; its message is enqueued again.
DelayedRetry(t) ==
    /\ timers[t] > 0
    /\ timers' = [timers EXCEPT ![t] = @ - 1]
    /\ IF store[t].status = FAILED
       THEN /\ nextSeq <= MaxEnq
            /\ store' = [store EXCEPT ![t] = RetryRow(@)]
            /\ broker' = EnqueueTask(broker, t, store[t].agent_type,
                                     store[t].priority, nextSeq)
            /\ nextSeq' = nextSeq + 1
       ELSE UNCHANGED <<store, broker, nextSeq>>
    /\ UNCHANGED <<nextId, lastPopped, lastReturned, agents, running,
                   workerVars, config, lastRetry, stopVars, busVars, faultVars,
                   policyVars, retrying>>

(* ---------------- enqueue_task failing under its callers --------------- *)

\* submit_task / create_task with the broker failing: the row is committed,
\* enqueue_task catches the error of its RPUSH and returns False, and
\* create_task, which does not look at the result, returns the task.
SubmitTaskFault(a, p) ==
    /\ nextId <= MaxTasks
    /\ store' = [store EXCEPT ![nextId] =
                    [status |-> PENDING, agent_type |-> a, priority |-> p,
                     retry_count |-> 0, error_message |-> NoError,
                     created_at |-> 1, started_at |-> 0, completed_at |-> 0]]
    /\ nextId' = nextId + 1
    /\ UNCHANGED <<brokerVars, agents, running, workerVars, retryVars, stopVars,
                   busVars, faultVars, policyVars, retrying>>

\* _delayed_retry after its sleep, the broker failing: AgentTaskManager
\* .retry_task commits the reset row of a FAILED task, enqueue_task returns
\* False, and retry_task, which does not look at the result, returns True.
DelayedRetryFault(t) ==
    /\ timers[t] > 0
    /\ timers' = [timers EXCEPT ![t] = @ - 1]
    /\ store' = IF store[t].status = FAILED
                THEN [store EXCEPT ![t] = RetryRow(@)]
                ELSE store
    /\ UNCHANGED <<nextId, brokerVars, agents, running, workerVars, config,
                   lastRetry, stopVars, busVars, faultVars, policyVars,
                   retrying>>

\* q without its i-th element.
Without(q, i) == [j \in 1..(Len(q) - 1) |-> IF j < i THEN q[j] ELSE q[j + 1]]

\* _delayed_retry after its sleep, up to the first await of
\* AgentTaskManager.retry_task (lines 379-382): get_task loads the row in
\* the session of the call; unless the task is FAILED the call returns
\* False, otherwise it goes on with the retry_count it has read.
DelayedRetryRead(t) ==
    /\ timers[t] > 0
    /\ timers' = [timers EXCEPT ![t] = @ - 1]
    /\ retrying' = IF store[t].status = FAILED
                   THEN [retrying EXCEPT ![t] = Append(@, store[t].retry_count)]
                   ELSE retrying
    /\ UNCHANGED <<storeVars, brokerVars, agents, running, workerVars, config,
                   lastRetry, stopVars, busVars, faultVars, policyVars>>

\* AgentTaskManager.retry_task, lines 384-392, of the i-th suspended call:
\* the loaded object gets retry_count + 1, PENDING and no error, the commit
\* writes it over whatever the row holds now, and the message is enqueued.
DelayedRetryCommit(t, i) ==
    /\ i \in 1..Len(retrying[t])
    /\ store[t].status # ABSENT
    /\ nextSeq <= MaxEnq
    /\ retrying' = [retrying EXCEPT ![t] = Without(@, i)]
    /\ store' = [store EXCEPT ![t] =
                    RetryRow([@ EXCEPT !.retry_count = retrying[t][i]])]
    /\ broker' = EnqueueTask(broker, t, store[t].agent_type, store[t].priority,
                             nextSeq)
    /\ nextSeq' = nextSeq + 1
    /\ UNCHANGED <<nextId, lastPopped, lastReturned, agents, running,
                   workerVars, retryVars, stopVars, busVars, faultVars,
                   policyVars>>

\* retry_failed_tasks: every FAILED task for which should_retry holds is
\* handed to retry_task (newest first, so the oldest is the last call).
FailedEligible == {t \in TaskIds : store[t].status = FAILED /\ RetryEligible(t)}

RetryFailedTasks ==
    /\ FailedEligible # {}
    /\ Pending + Cardinality(FailedEligible) <= MaxPending
    /\ timers' = [t \in TaskIds |-> IF t \in FailedEligible THEN timers[t] + 1
                                    ELSE timers[t]]
    /\ lastRetry' = [task |-> CHOOSE t \in FailedEligible :
                                  \A u \in FailedEligible : t <= u,
                     result |-> TRUE]
    /\ UNCHANGED <<storeVars, brokerVars, agents, running, workerVars, config,
                   stopVars, busVars, faultVars, policyVars, retrying>>

\* DELETE /agents/tasks/{task_id}: the row is removed.
DeleteTask(t) ==
    /\ store[t].status # ABSENT
    /\ store' = [store EXCEPT ![t] = NoRow]
    /\ UNCHANGED <<nextId, brokerVars, agents, running, workerVars, retryVars,
                   stopVars, busVars, faultVars, policyVars, retrying>>

(* ------------------------------- EventBus ----------------------------- *)

\* Everything but the event bus.
coreVars == <<storeVars, brokerVars, agents, running, workerVars, retryVars,
              stopVars, faultVars, policyVars, retrying>>

Range(q) == {q[i] : i \in 1..Len(q)}

\* list.remove(h): the list without its first h.
Remove(q, h) ==
    LET i == CHOOSE k \in 1..Len(q) : q[k] = h /\ \A j \in 1..(k - 1) : q[j] # h
    IN [j \in 1..(Len(q) - 1) |-> IF j < i THEN q[j] ELSE q[j + 1]]

\* redis_client.get_message, lines 208-209: `if not self._pubsub: return
\* None` returns before any await.  A listener whose loop calls it without a
\* pub/sub connection never suspends: it keeps the event loop, and no other
\* coroutine of the process runs again.
Unblocked == \A l \in Listeners : listeners[l] # "spinning"

\* subscribe: the channel becomes a key of the dict (and stays one) and the
\* handler is appended to its list.
Subscribe(h) ==
    /\ Unblocked
    /\ h \notin Range(handlers)
    /\ handlers' = Append(handlers, h)
    /\ channelKey' = TRUE
    /\ UNCHANGED <<coreVars, pubsub, marked, busRunning, listenerTask, listeners, lidx,
                   linv, ldue, ldone, startCalls, busStop, subscribed, inbox,
                   nPublished, stopped, aborted>>

\* unsubscribe: the handler is removed from the list of the channel, the
\* list a dispatch in progress is iterating over.
Unsubscribe(h) ==
    /\ Unblocked
    /\ h \in Range(handlers)
    /\ handlers' = Remove(handlers, h)
    /\ ldue' = [l \in Listeners |-> ldue[l] \ {h}]
    /\ UNCHANGED <<coreVars, pubsub, channelKey, marked, busRunning, listenerTask,
                   listeners, lidx, linv, ldone, startCalls, busStop,
                   subscribed, inbox, nPublished, stopped, aborted>>

\* redis_client.publish on the channel: the message reaches the pub/sub
\* connection of the bus when that is subscribed.
Publish ==
    /\ subscribed
    /\ nPublished < MaxEvents
    /\ inbox' = inbox + 1
    /\ nPublished' = nPublished + 1
    /\ UNCHANGED <<coreVars, pubsub, handlers, channelKey, marked, busRunning,
                   listenerTask, listeners, lidx, linv, ldue, ldone, startCalls,
                   busStop, subscribed, stopped, aborted>>

\* redis_client.publish on the channel while the pub/sub connection of the
\* bus is not subscribed to it: PUBLISH reaches no subscriber and the
\* message is dropped by the broker.
PublishUnheard ==
    /\ ~subscribed
    /\ nPublished < MaxEvents
    /\ nPublished' = nPublished + 1
    /\ UNCHANGED <<coreVars, pubsub, handlers, channelKey, marked, busRunning,
                   listenerTask, listeners, lidx, linv, ldue, ldone, startCalls,
                   busStop, subscribed, inbox, stopped, aborted>>

\* The listener task start creates next.
NewListener ==
    CHOOSE l \in Listeners :
        listeners[l] = "none" /\ \A k \in Listeners : k < l => listeners[k] # "none"

\* start, lines 149-160: running = True; when self.handlers has a channel
\* redis_client.subscribe creates the pub/sub connection if there is none
\* and the call is suspended in its SUBSCRIBE, otherwise it goes straight
\* on to create the listener task.
BusStart ==
    /\ Unblocked
    /\ ~busRunning
    /\ busRunning' = TRUE
    /\ stopped' = FALSE
    /\ IF channelKey
       THEN /\ startCalls < MaxStarts
            /\ startCalls' = startCalls + 1
            /\ UNCHANGED <<listenerTask, listeners>>
       ELSE /\ \E l \in Listeners : listeners[l] = "none"
            /\ listenerTask' = NewListener
            /\ listeners' = [listeners EXCEPT ![NewListener] = "ready"]
            /\ UNCHANGED startCalls
    /\ pubsub' = (pubsub \/ channelKey)
    /\ UNCHANGED <<coreVars, handlers, channelKey, marked, lidx, linv, ldue,
                   ldone, busStop, subscribed, inbox, nPublished, aborted>>

\* start, lines 160-171: the subscription is in place and the listener task
\* is created; _listener_task refers to the new task.
BusStartFinish ==
    /\ Unblocked
    /\ startCalls > 0
    /\ \E l \in Listeners : listeners[l] = "none"
    /\ startCalls' = startCalls - 1
    /\ subscribed' = (subscribed \/ channelKey)
    /\ listenerTask' = NewListener
    /\ listeners' = [listeners EXCEPT ![NewListener] = "ready"]
    /\ UNCHANGED <<coreVars, pubsub, handlers, channelKey, marked, busRunning, lidx,
                   linv, ldue, ldone, busStop, inbox, nPublished, stopped,
                   aborted>>

\* stop, lines 187-194: the task _listener_task refers to is cancelled and
\* awaited.  CancelledError is raised in it where it is suspended: in
\* get_message, or inside the handler it is awaiting.  It is not an
\* Exception, so _dispatch lets it through and _listen breaks out of its loop.
CancelListener(ls) ==
    IF listenerTask # 0 /\ ls[listenerTask] \in {"ready", "waiting", "inhandler"}
    THEN [ls EXCEPT ![listenerTask] = "exited"]
    ELSE ls

\* A handler is cut short when the cancelled listener was awaiting it.
CancelAborts == listenerTask # 0 /\ listeners[listenerTask] = "inhandler"

\* stop, lines 175-184: running = False; when self.handlers has a channel
\* and a pub/sub connection exists the call is then suspended in
\* redis_client.unsubscribe, otherwise it goes straight on to cancel the
\* listener and return.  A handler call the
\* listener is awaiting at this moment is in flight when stop is called.
BusStop ==
    /\ Unblocked
    /\ busRunning
    /\ busStop = "none"
    /\ busRunning' = FALSE
    /\ IF channelKey /\ pubsub
       THEN /\ busStop' = "unsubscribing"
            /\ marked' = CancelAborts
            /\ UNCHANGED <<listeners, ldone, aborted, stopped>>
       ELSE /\ listeners' = CancelListener(listeners)
            /\ aborted' = (aborted \/ CancelAborts)
            /\ marked' = FALSE
            /\ ldone' = [l \in Listeners |->
                            ldone[l] \/ (l = listenerTask /\ CancelAborts)]
            /\ stopped' = (startCalls = 0)
            /\ UNCHANGED busStop
    /\ UNCHANGED <<coreVars, pubsub, handlers, channelKey, listenerTask, lidx,
                   linv, ldue, startCalls, subscribed, inbox, nPublished>>

\* stop, lines 184-194: the channel is unsubscribed, the listener cancelled
\* and awaited, and the call returns.
BusStopFinish ==
    /\ Unblocked
    /\ busStop = "unsubscribing"
    /\ busStop' = "none"
    /\ subscribed' = FALSE
    /\ listeners' = CancelListener(listeners)
    /\ aborted' = (aborted \/ (CancelAborts /\ marked))
    /\ marked' = FALSE
    /\ ldone' = [l \in Listeners |-> ldone[l] \/ (l = listenerTask /\ CancelAborts)]
    /\ stopped' = (~busRunning /\ startCalls = 0)
    /\ UNCHANGED <<coreVars, pubsub, handlers, channelKey, busRunning, listenerTask,
                   lidx, linv, ldue, startCalls, inbox, nPublished>>

\* `while self.running` of _listen: leave, or call get_message, which waits
\* for the next message on the pub/sub connection and returns at once
\* when there is none.
LoopTest ==
    IF ~busRunning THEN "exited" ELSE IF pubsub THEN "waiting" ELSE "spinning"

\* _listen begins to run.
ListenerRun(l) ==
    /\ Unblocked
    /\ listeners[l] = "ready"
    /\ listeners' = [listeners EXCEPT ![l] = LoopTest]
    /\ UNCHANGED <<coreVars, pubsub, handlers, channelKey, marked, busRunning,
                   listenerTask, lidx, linv, ldue, ldone, startCalls, busStop,
                   subscribed, inbox, nPublished, stopped, aborted>>

\* _listen, lines 203-206, and _dispatch up to the first handler call:
\* get_message returns a message; without handlers _dispatch returns at
\* once, otherwise the first handler of the list is called.
ListenerReceive(l) ==
    /\ Unblocked
    /\ listeners[l] = "waiting"
    /\ inbox > 0
    /\ inbox' = inbox - 1
    /\ IF handlers = <<>>
       THEN /\ listeners' = [listeners EXCEPT ![l] = LoopTest]
            /\ lidx' = [lidx EXCEPT ![l] = 0]
            /\ linv' = [linv EXCEPT ![l] = [h \in Handlers |-> 0]]
            /\ ldue' = [ldue EXCEPT ![l] = {}]
            /\ ldone' = [ldone EXCEPT ![l] = TRUE]
       ELSE /\ listeners' = [listeners EXCEPT ![l] = "inhandler"]
            /\ lidx' = [lidx EXCEPT ![l] = 1]
            /\ linv' = [linv EXCEPT ![l] =
                           [h \in Handlers |-> IF h = handlers[1] THEN 1 ELSE 0]]
            /\ ldue' = [ldue EXCEPT ![l] = Range(handlers)]
            /\ ldone' = [ldone EXCEPT ![l] = FALSE]
    /\ UNCHANGED <<coreVars, pubsub, handlers, channelKey, marked, busRunning,
                   listenerTask, startCalls, busStop, subscribed, nPublished,
                   stopped, aborted>>

\* _listen: get_message times out and returns None.
ListenerTimeout(l) ==
    /\ Unblocked
    /\ listeners[l] = "waiting"
    /\ inbox = 0
    /\ listeners' = [listeners EXCEPT ![l] = LoopTest]
    /\ UNCHANGED <<coreVars, pubsub, handlers, channelKey, marked, busRunning,
                   listenerTask, lidx, linv, ldue, ldone, startCalls, busStop,
                   subscribed, inbox, nPublished, stopped, aborted>>

\* _dispatch, lines 247-262: the handler returns, or raises an Exception
\* that is caught and logged; the for loop goes on to the next index of the
\* list as it is now, or ends.
HandlerEnd(l, r) ==
    /\ Unblocked
    /\ listeners[l] = "inhandler"
    /\ IF lidx[l] + 1 <= Len(handlers)
       THEN /\ lidx' = [lidx EXCEPT ![l] = @ + 1]
            /\ linv' = [linv EXCEPT ![l][handlers[lidx[l] + 1]] = @ + 1]
            /\ UNCHANGED <<listeners, ldone>>
       ELSE /\ lidx' = [lidx EXCEPT ![l] = 0]
            /\ ldone' = [ldone EXCEPT ![l] = TRUE]
            /\ listeners' = [listeners EXCEPT ![l] = LoopTest]
            /\ UNCHANGED linv
    /\ marked' = (marked /\ l # listenerTask)
    /\ UNCHANGED <<coreVars, pubsub, handlers, channelKey, busRunning, listenerTask,
                   ldue, startCalls, busStop, subscribed, inbox, nPublished,
                   stopped, aborted>>

(* ---------------------- TaskQueue on a failing broker ----------------- *)

\* Everything but the broker lists, the enqueue ordinal and lastOp.
quietVars == <<storeVars, lastPopped, lastReturned, agents, running, workerVars,
               retryVars, stopVars, busVars, policyVars, retrying>>

\* The except clause lets the exception out instead of returning.
Caught_Reraise(op, fallback) ==
    [op |-> op, faulted |-> TRUE, raised |-> TRUE, value |-> fallback,
     stats |-> ZeroStats]

\* `except Exception as e:` of a TaskQueue operation: the error is logged
\* and the fallback value returned.
Caught(op, fallback) ==
    [op |-> op, faulted |-> TRUE, raised |-> FALSE, value |-> fallback,
     stats |-> ZeroStats]

\* The operation returns normally.
Returned(op, v, st) ==
    [op |-> op, faulted |-> FALSE, raised |-> FALSE, value |-> v, stats |-> st]

\* enqueue_task with broker call f failing: one RPUSH.
QEnqueue(t, a, p, f) ==
    /\ nextSeq <= MaxEnq
    /\ IF f = 1
       THEN /\ lastOp' = Caught("enqueue_task", "False")
            /\ UNCHANGED <<broker, nextSeq>>
       ELSE /\ lastOp' = Returned("enqueue_task", "True", ZeroStats)
            /\ broker' = EnqueueTask(broker, t, a, p, nextSeq)
            /\ nextSeq' = nextSeq + 1
    /\ UNCHANGED quietVars

\* dequeue_task with broker call f failing: BLPOP, then RPUSH onto the
\* processing list when BLPOP gave a message.  A timeout of BLPOP on an empty
\* list is no failure.
QDequeue(f) ==
    /\ IF f = 1
       THEN /\ lastOp' = Caught("dequeue_task", "None")
            /\ UNCHANGED broker
       ELSE IF broker[MAIN_QUEUE] = <<>>
       THEN /\ lastOp' = Returned("dequeue_task", "None", ZeroStats)
            /\ UNCHANGED broker
       ELSE IF f = 2
       THEN /\ lastOp' = Caught("dequeue_task", "None")
            /\ broker' = [broker EXCEPT ![MAIN_QUEUE] = Tail(@)]
       ELSE /\ lastOp' = Returned("dequeue_task", "task_data", ZeroStats)
            /\ broker' = RedisEnqueue([broker EXCEPT ![MAIN_QUEUE] = Tail(@)],
                                      PROCESSING_QUEUE, Head(broker[MAIN_QUEUE]))
    /\ UNCHANGED <<quietVars, nextSeq>>

\* complete_task with broker call f failing: LRANGE, then DEL when the scan
\* found the task.
QComplete(t, f) ==
    /\ IF f = 1 \/ (f = 2 /\ HasEntry(broker[PROCESSING_QUEUE], t))
       THEN /\ lastOp' = Caught("complete_task", "False")
            /\ UNCHANGED broker
       ELSE /\ lastOp' = Returned("complete_task",
                                  IF HasEntry(broker[PROCESSING_QUEUE], t)
                                  THEN "True" ELSE "False", ZeroStats)
            /\ broker' = CompleteTask(broker, t)
    /\ UNCHANGED <<quietVars, nextSeq>>

\* move_to_dlq with broker call f failing: one RPUSH.
QMoveToDlq(t, f) ==
    /\ Len(broker[DEAD_LETTER_QUEUE]) < MaxDlq
    /\ IF f = 1
       THEN /\ lastOp' = Caught("move_to_dlq", "False")
            /\ UNCHANGED broker
       ELSE /\ lastOp' = Returned("move_to_dlq", "True", ZeroStats)
            /\ broker' = MoveToDlq(broker, t, UnknownError)
    /\ UNCHANGED <<quietVars, nextSeq>>

\* get_queue_stats with broker call f failing: three LLEN.
QStats(f) ==
    /\ lastOp' = IF f \in 1..3 THEN Caught("get_queue_stats", "stats")
                 ELSE Returned("get_queue_stats", "stats", QueueStats)
    /\ UNCHANGED <<quietVars, broker, nextSeq>>

(* --------------------- RetryConfig, retry_with_backoff ----------------- *)

\* Everything but the policy calls.
systemVars == <<storeVars, brokerVars, agents, running, workerVars, retryVars,
                stopVars, busVars, faultVars, retrying>>

\* should_retry(n) on the policy object.
ShouldRetryCall(n) ==
    /\ calc' = [NoCalc EXCEPT !.fn = "should_retry", !.attempt = n,
                              !.ok = ShouldRetry(n, policy.max_attempts)]
    /\ UNCHANGED <<systemVars, policy, rwb>>

\* calculate_delay(n) on the policy object; random.random() is consulted
\* only when jitter is on.  The result of the calculate_delay call made
\* just before is kept beside the new one.
CalculateDelayCall(n, r) ==
    /\ policy.jitter \/ r = 0
    /\ calc' = [fn |-> "calculate_delay", attempt |-> n, ok |-> FALSE,
                out |-> CalculateDelay(policy, n, r),
                prev_attempt |-> IF calc.fn = "calculate_delay"
                                 THEN calc.attempt ELSE -1,
                prev_out |-> IF calc.fn = "calculate_delay"
                             THEN calc.out ELSE 0]
    /\ UNCHANGED <<systemVars, policy, rwb>>

\* `for attempt in range(config.max_attempts)`: the number of rounds.
Rounds(max_attempts) == max_attempts

\* retry_with_backoff is called, lines 232-237: last_exception = None and
\* the loop is entered; when range(max_attempts) is empty the body never
\* runs and `raise last_exception` raises None, which is a TypeError.
RwbCall ==
    /\ rwb.pc = "none"
    /\ rwb' = IF 0 < Rounds(policy.max_attempts)
              THEN [rwb EXCEPT !.pc = "invoking"]
              ELSE [rwb EXCEPT !.pc = "raised", !.kind = "TypeError"]
    /\ UNCHANGED <<systemVars, policy, calc>>

\* Lines 238-276: the operation is invoked and returns (its result is
\* returned at once) or raises (the error becomes last_exception; the loop
\* is left when should_retry refuses, otherwise the call sleeps for
\* calculate_delay(attempt), q being what random.random() gives).  Results
\* and errors are named by the number of the invocation they come from.
RwbInvoke(r) ==
    LET k == Len(rwb.hist) + 1 IN
    /\ rwb.pc = "invoking"
    /\ \E q \in Randoms :
         rwb' = IF r = Ok
                THEN [rwb EXCEPT !.hist = Append(@, r), !.pc = "returned",
                                 !.kind = "result", !.value = k]
                ELSE IF ~ShouldRetry(rwb.attempt, policy.max_attempts)
                THEN [rwb EXCEPT !.hist = Append(@, r), !.pc = "raised",
                                 !.kind = "error", !.value = k]
                ELSE [rwb EXCEPT !.hist = Append(@, r), !.pc = "sleeping",
                                 !.kind = "error", !.value = k,
                                 !.slept = Append(@, CalculateDelay(
                                               policy, rwb.attempt, q))]
    /\ UNCHANGED <<systemVars, policy, calc>>

\* Lines 276-288: the sleep ends; the loop goes to its next round, or is
\* exhausted and last_exception is raised.
RwbWake ==
    /\ rwb.pc = "sleeping"
    /\ rwb' = IF rwb.attempt + 1 < Rounds(policy.max_attempts)
              THEN [rwb EXCEPT !.attempt = @ + 1, !.pc = "invoking"]
              ELSE [rwb EXCEPT !.pc = "raised"]
    /\ UNCHANGED <<systemVars, policy, calc>>

(* --------------------------- specifications --------------------------- *)

WorkerStep ==
    \/ \E w \in Workers : WorkerPop(w)
    \/ \E w \in Workers : WorkerPush(w)
    \/ \E w \in Workers : WorkerLookup(w)
    \/ \E w \in Workers, r \in {Ok, HandlerError} : WorkerValidate(w, r)
    \/ \E w \in Workers, r \in {Ok, HandlerError} : WorkerProcess(w, r)
    \/ \E w \in Workers : WorkerRoute(w)
    \/ \E w \in Workers : WorkerDone(w)

RetryStep ==
    \/ \E t \in TaskIds : RetryTask(t)
    \/ RetryFailedTasks
    \/ \E t \in TaskIds : DelayedRetry(t)

\* The subsystem with tasks submitted at the default priority, retried and
\* deleted through the API.
Next ==
    \/ \E a \in AgentTypes : RegisterAgent(a)
    \/ Start
    \/ \E a \in AgentTypes : SubmitTask(a, DefaultPriority)
    \/ WorkerStep
    \/ RetryStep
    \/ \E t \in TaskIds : DeleteTask(t)

Spec == Init /\ [][Next]_vars

\* Queue ordering: tasks are submitted with any priority; no row is deleted.
NextFifo ==
    \/ \E a \in AgentTypes : RegisterAgent(a)
    \/ Start
    \/ \E a \in AgentTypes, p \in Priorities : SubmitTask(a, p)
    \/ WorkerStep
    \/ RetryStep

SpecFifo == Init /\ [][NextFifo]_vars

\* Any call the handlers may make: return, or raise with or without a text.
WorkerStepOf(w) ==
    \/ WorkerPop(w)
    \/ WorkerPush(w)
    \/ WorkerLookup(w)
    \/ \E r \in Outcomes : WorkerValidate(w, r)
    \/ \E r \in Outcomes : WorkerProcess(w, r)
    \/ WorkerRoute(w)
    \/ WorkerDone(w)

\* The orchestrator started and left running: tasks are submitted and
\* processed; no retry, no deletion, no stop.
NextLive ==
    \/ \E a \in AgentTypes : RegisterAgent(a)
    \/ Start
    \/ \E a \in AgentTypes, p \in Priorities : SubmitTask(a, p)
    \/ \E w \in Workers : WorkerStepOf(w)

\* The event loop runs every coroutine that can go on: a worker whose await
\* has completed is resumed, and a handler call returns or raises.
SpecLive ==
    /\ Init
    /\ [][NextLive]_vars
    /\ \A w \in Workers : WF_vars(WorkerStepOf(w))

\* Start and stop of the orchestrator around the processing of tasks.
NextStop ==
    \/ \E a \in AgentTypes : RegisterAgent(a)
    \/ Start
    \/ \E a \in AgentTypes : SubmitTask(a, DefaultPriority)
    \/ \E w \in Workers : WorkerStepOf(w)
    \/ \E w \in Workers : WorkerTimeout(w)
    \/ Stop
    \/ StopReturn

\* Every handler call ends and every blocking dequeue times out: a worker
\* that can take a step takes one, and gather returns once the workers ended.
SpecStop ==
    /\ Init
    /\ [][NextStop]_vars
    /\ \A w \in Workers : WF_vars(WorkerStepOf(w) \/ WorkerTimeout(w))
    /\ WF_vars(StopReturn)

\* The event bus: subscriptions, start and stop calls, published events,
\* the listener tasks.
NextBus ==
    \/ \E h \in Handlers : Subscribe(h)
    \/ \E h \in Handlers : Unsubscribe(h)
    \/ Publish
    \/ BusStart
    \/ BusStartFinish
    \/ BusStop
    \/ BusStopFinish
    \/ \E l \in Listeners : ListenerRun(l)
    \/ \E l \in Listeners : ListenerReceive(l)
    \/ \E l \in Listeners : ListenerTimeout(l)
    \/ \E l \in Listeners, r \in {Ok, HandlerError} : HandlerEnd(l, r)

SpecBus == Init /\ [][NextBus]_vars

\* The event bus with events published at any time, the bus subscribed to
\* the channel or not.
NextColdStart ==
    \/ \E h \in Handlers : Subscribe(h)
    \/ \E h \in Handlers : Unsubscribe(h)
    \/ Publish
    \/ PublishUnheard
    \/ BusStart
    \/ BusStartFinish
    \/ BusStop
    \/ BusStopFinish
    \/ \E l \in Listeners : ListenerRun(l)
    \/ \E l \in Listeners : ListenerReceive(l)
    \/ \E l \in Listeners : ListenerTimeout(l)
    \/ \E l \in Listeners, r \in {Ok, HandlerError} : HandlerEnd(l, r)

SpecColdStart == Init /\ [][NextColdStart]_vars

\* The bus started and left running: handlers are subscribed and
\* unsubscribed while the listener dispatches the published events; no stop
\* call, so no dispatch is cancelled.
NextDispatch ==
    \/ \E h \in Handlers : Subscribe(h)
    \/ \E h \in Handlers : Unsubscribe(h)
    \/ Publish
    \/ BusStart
    \/ BusStartFinish
    \/ \E l \in Listeners : ListenerRun(l)
    \/ \E l \in Listeners : ListenerReceive(l)
    \/ \E l \in Listeners : ListenerTimeout(l)
    \/ \E l \in Listeners, r \in {Ok, HandlerError} : HandlerEnd(l, r)

SpecDispatch == Init /\ [][NextDispatch]_vars

\* The TaskQueue operations called directly, any broker call of theirs failing.
NextFault ==
    \/ \E t \in TaskIds, a \in AgentTypes, f \in Faults :
           QEnqueue(t, a, DefaultPriority, f)
    \/ \E f \in Faults : QDequeue(f)
    \/ \E t \in TaskIds, f \in Faults : QComplete(t, f)
    \/ \E t \in TaskIds, f \in Faults : QMoveToDlq(t, f)
    \/ \E f \in Faults : QStats(f)

SpecFault == Init /\ [][NextFault]_vars

\* Retries requested more than once for a task: each delayed retry runs
\* AgentTaskManager.retry_task as a coroutine of its own, suspended at its
\* database calls.
NextRace ==
    \/ \E a \in AgentTypes : RegisterAgent(a)
    \/ Start
    \/ \E a \in AgentTypes : SubmitTask(a, DefaultPriority)
    \/ WorkerStep
    \/ \E t \in TaskIds : RetryTask(t)
    \/ RetryFailedTasks
    \/ \E t \in TaskIds : DelayedRetryRead(t)
    \/ \E t \in TaskIds, i \in 1..MaxPending : DelayedRetryCommit(t, i)

SpecRace == Init /\ [][NextRace]_vars

\* The orchestrator started and stopped while the broker and the store fail
\* under the workers.
NextHazard ==
    \/ \E a \in AgentTypes : RegisterAgent(a)
    \/ Start
    \/ \E a \in AgentTypes : SubmitTask(a, DefaultPriority)
    \/ \E w \in Workers : WorkerStepOf(w)
    \/ \E w \in Workers : WorkerTimeout(w)
    \/ Stop
    \/ StopReturn
    \/ \E w \in Workers, f \in 1..2 : DequeueFault(w, f)
    \/ \E w \in Workers : SessionFault(w)
    \/ \E w \in Workers : LookupFault(w)
    \/ \E w \in Workers, r \in {Ok, HandlerError} : ExecuteStoreFault(w, r)
    \/ \E w \in Workers, published \in BOOLEAN : RouteFault(w, published)
    \/ \E w \in Workers : CloseFault(w)

SpecHazard == Init /\ [][NextHazard]_vars

\* Tasks submitted, processed and retried while the broker fails under
\* enqueue_task.
NextOutage ==
    \/ \E a \in AgentTypes : RegisterAgent(a)
    \/ Start
    \/ \E a \in AgentTypes : SubmitTask(a, DefaultPriority)
    \/ \E a \in AgentTypes : SubmitTaskFault(a, DefaultPriority)
    \/ WorkerStep
    \/ \E t \in TaskIds : RetryTask(t)
    \/ \E t \in TaskIds : DelayedRetry(t)
    \/ \E t \in TaskIds : DelayedRetryFault(t)

SpecOutage == Init /\ [][NextOutage]_vars

\* start and stop called in any order, one call overlapping another, around
\* the processing of tasks.
NextRestart ==
    \/ \E a \in AgentTypes : RegisterAgent(a)
    \/ StartPool
    \/ StopPool
    \/ \E g \in SUBSET Workers : StopPoolReturn(g)
    \/ \E a \in AgentTypes : SubmitTask(a, DefaultPriority)
    \/ \E w \in Workers : WorkerStepOf(w)
    \/ \E w \in Workers : WorkerTimeout(w)

SpecRestart == Init /\ [][NextRestart]_vars

\* should_retry and calculate_delay called on any RetryConfig.
NextPolicy ==
    \/ \E n \in Attempts : ShouldRetryCall(n)
    \/ \E n \in Attempts, r \in Randoms : CalculateDelayCall(n, r)

SpecPolicy == InitPolicy /\ [][NextPolicy]_vars

\* One retry_with_backoff call under any RetryConfig, the operation
\* returning or raising at each invocation.
NextBackoff ==
    \/ RwbCall
    \/ \E r \in {Ok, HandlerError} : RwbInvoke(r)
    \/ RwbWake

SpecBackoff == InitPolicy /\ [][NextBackoff]_vars

(* ------------------------------- claims ------------------------------- *)

Main == broker[MAIN_QUEUE]
Processing == broker[PROCESSING_QUEUE]
Dlq == broker[DEAD_LETTER_QUEUE]

\* C1: when the processing of a dequeued message has ended, exactly one of
\* complete_task and move_to_dlq has been called for its task id: never
\* both, never neither.
C1_ExactlyOneOutcome ==
    \A w \in Workers : pc[w] = "done" => nComplete[w] + nDlq[w] = 1

\* C2: no task id has entries in two of the three broker lists at the same
\* time.
C2_QueuesDisjoint ==
    \A t \in TaskIds :
        Cardinality({q \in QueueNames : HasEntry(broker[q], t)}) <= 1

\* C3: a complete_task call for a task whose message is in the processing
\* queue leaves the processing queue without any entry for that task, and
\* shorter than it was.
C3_CompleteRemoves ==
    [][\A w \in Workers :
          (WorkerRoute(w) /\ wout[w] = "success"
              /\ HasEntry(Processing, wmsg[w].task_id))
          => /\ ~HasEntry(broker'[PROCESSING_QUEUE], wmsg[w].task_id)
             /\ Len(broker'[PROCESSING_QUEUE]) < Len(Processing)]_vars

\* C4: the pop from the main queue and the push onto the processing queue
\* are one atomic step: a message a worker has taken from the main queue is
\* on the processing queue in every state others can observe, and is there
\* when dequeue_task returns it.
C4_DequeueAtomic ==
    \A w \in Workers :
        pc[w] \in {"popped", "dequeued"} =>
            \E i \in 1..Len(Processing) : Processing[i] = wmsg[w]

StatusEdges == {<<PENDING, IN_PROGRESS>>, <<IN_PROGRESS, COMPLETED>>,
                <<IN_PROGRESS, FAILED>>, <<FAILED, PENDING>>}

\* C6: the persisted status of a task changes only along PENDING ->
\* IN_PROGRESS, IN_PROGRESS -> COMPLETED, IN_PROGRESS -> FAILED and
\* FAILED -> PENDING.
C6_StatusEdges ==
    [][\A t \in TaskIds :
          (/\ store[t].status # ABSENT
           /\ store'[t].status # ABSENT
           /\ store'[t].status # store[t].status)
          => <<store[t].status, store'[t].status>> \in StatusEdges]_vars

\* C7: a message whose task record is missing, or whose agent type has no
\* registered handler, ends with one move_to_dlq call and an entry for its
\* task id on the dead-letter queue (no handler is invoked on these paths).
C7_HardFailureToDlq ==
    \A w \in Workers :
        (pc[w] = "done" /\ wout[w] \in {"no_agent", "no_task"})
        => (nDlq[w] = 1 /\ HasEntry(Dlq, wmsg[w].task_id))

\* C8: retry_count never exceeds max_attempts of the policy the task is
\* retried under.
C8_RetryCountBounded ==
    \A t \in TaskIds :
        store[t].status # ABSENT => store[t].retry_count <= config

\* C9: RetryManager.retry_task returns false and schedules nothing when the
\* task is absent or its status is not FAILED.
C9_RetryOnlyFailed ==
    [][\A t \in TaskIds :
          (RetryTask(t) /\ store[t].status # FAILED)
          => (lastRetry'.result = FALSE /\ timers' = timers)]_vars

\* C10: for a task with retry_count >= max_attempts, RetryManager.retry_task
\* returns false, schedules no delayed retry, and leaves the task record and
\* the three queues as they were.
C10_ExhaustedRefused ==
    [][\A t \in TaskIds :
          (/\ RetryTask(t)
           /\ store[t].status # ABSENT
           /\ store[t].retry_count >= config)
          => /\ lastRetry'.result = FALSE
             /\ timers' = timers
             /\ store' = store
             /\ broker' = broker]_vars

\* C10 witness: retry_task has just refused a FAILED task that had been
\* retried max_attempts >= 1 times; nothing is scheduled.
C10_Witness ==
    /\ lastRetry.task \in TaskIds
    /\ lastRetry.result = FALSE
    /\ config >= 1
    /\ store[lastRetry.task].status = FAILED
    /\ store[lastRetry.task].retry_count >= config
    /\ timers[lastRetry.task] = 0

C12_StoppedQuiet ==
    stopped => \A l \in Listeners : listeners[l] \notin {"waiting", "inhandler"}

\* C13: when the dispatch of a received message is over, every handler that
\* was subscribed to the channel all through it has been invoked exactly
\* once.
C13_EachHandlerOnce ==
    \A l \in Listeners : ldone[l] => \A h \in ldue[l] : linv[l][h] = 1

\* C14: no handler invocation in flight is ever cut short by a stop call.
C14_NoHandlerAborted == ~aborted

\* C15: once AgentOrchestrator.stop has been called, no message leaves the
\* main queue.
C15_NoPopAfterStop ==
    [][stopPc = "waiting" => Len(broker'[MAIN_QUEUE]) >= Len(Main)]_vars

SuccessOutcome(w) ==
    /\ store[wmsg[w].task_id].status = COMPLETED
    /\ nComplete[w] = 1
    /\ nDlq[w] = 0
    /\ wpub[w] = TASK_COMPLETED

C18_ProcessFailureRecorded ==
    \A w \in Workers :
        (pc[w] = "done" /\ wout[w] = "failed")
        => /\ store[wmsg[w].task_id].status = FAILED
           /\ Given(store[wmsg[w].task_id].error_message)
           /\ nDlq[w] = 1
           /\ HasEntry(Dlq, wmsg[w].task_id)
           /\ wpub[w] = TASK_FAILED

\* C19: a failure of validate_input ends as a failure of process does: the
\* statuses IN_PROGRESS (started_at) and FAILED (completed_at) written in
\* that order, the task FAILED, one move_to_dlq call and task_failed
\* published.
C19_ValidateLikeProcess ==
    \A w \in Workers :
        (pc[w] = "done" /\ wout[w] = "invalid")
        => /\ wtrace[w] = <<IN_PROGRESS, FAILED>>
           /\ store[wmsg[w].task_id].status = FAILED
           /\ nDlq[w] = 1
           /\ wpub[w] = TASK_FAILED

\* What each TaskQueue operation returns on a broker failure.
Fallback(op) ==
    IF op = "dequeue_task" THEN "None"
    ELSE IF op = "get_queue_stats" THEN "stats" ELSE "False"

\* C20: a broker failure inside enqueue_task, dequeue_task, complete_task,
\* move_to_dlq or get_queue_stats does not reach the caller as an exception:
\* the operation returns False, None (dequeue_task) or the all-zero stats.
C20_FaultsContained ==
    lastOp.faulted =>
        /\ ~lastOp.raised
        /\ lastOp.value = Fallback(lastOp.op)
        /\ lastOp.stats = ZeroStats

\* C20 witness: dequeue_task has returned None after the push onto the
\* processing queue failed: the message it had taken is on neither list.
C20_Witness ==
    /\ lastOp.op = "dequeue_task"
    /\ lastOp.faulted
    /\ lastOp.value = "None"
    /\ nextSeq = 2
    /\ Main = <<>>
    /\ Processing = <<>>

\* C21: a retry_with_backoff call that has ended has invoked the operation
\* at least once; when it returned, it returned the result of its last
\* invocation, the only one that succeeded; when it raised, every
\* invocation failed and it raised the error of the last one.
C21_BackoffOutcome ==
    rwb.pc \in {"returned", "raised"} =>
        /\ Len(rwb.hist) >= 1
        /\ rwb.pc = "returned" =>
               /\ rwb.kind = "result"
               /\ rwb.value = Len(rwb.hist)
               /\ rwb.hist[Len(rwb.hist)] = Ok
               /\ \A i \in 1..(Len(rwb.hist) - 1) : rwb.hist[i] # Ok
        /\ rwb.pc = "raised" =>
               /\ rwb.kind = "error"
               /\ rwb.value = Len(rwb.hist)
               /\ \A i \in 1..Len(rwb.hist) : rwb.hist[i] # Ok

\* C24: should_retry(attempt) is true exactly when attempt < max_attempts.
C24_ShouldRetryBoundary ==
    calc.fn = "should_retry" =>
        (calc.ok <=> calc.attempt < policy.max_attempts)

\* C24 witness: should_retry(0) has answered false under max_attempts = 0.
C24_Witness ==
    /\ calc.fn = "should_retry"
    /\ policy.max_attempts = 0
    /\ calc.attempt = 0
    /\ ~calc.ok

\* C25: with jitter off, calculate_delay(n) <= calculate_delay(n + 1) <=
\* max_delay, for two calls made one after the other on the same policy.
C25_DelayMonotone ==
    (/\ calc.fn = "calculate_delay"
     /\ ~policy.jitter
     /\ calc.prev_attempt + 1 = calc.attempt)
    => /\ calc.prev_out <= calc.out
       /\ calc.out <= policy.max_delay * Second

\* min(initial_delay * base^attempt, max_delay), in ticks.
Expected(p, n) ==
    Min((p.initial_delay * Second * Pow(p.exponential_base, n))
            \div Pow(Half, n),
        p.max_delay * Second)

\* C26: with jitter off calculate_delay(attempt) is min(initial_delay *
\* base^attempt, max_delay), the attempt zero-indexed; with jitter on the
\* result lies between that value d and 1.25 * d.
C26_DelayFormula ==
    calc.fn = "calculate_delay" =>
        LET d == Expected(policy, calc.attempt) IN
        IF policy.jitter
        THEN d <= calc.out /\ 4 * calc.out <= 5 * d
        ELSE calc.out = d

\* C26 witness: initial_delay 1, base 2, no jitter: calculate_delay(1) = 2
\* and then calculate_delay(2) = 4.
C26_Witness ==
    /\ calc.fn = "calculate_delay"
    /\ policy.initial_delay = 1
    /\ policy.exponential_base = 2 * Half
    /\ policy.max_delay = 300
    /\ ~policy.jitter
    /\ calc.prev_attempt = 1
    /\ calc.prev_out = 2 * Second
    /\ calc.attempt = 2
    /\ calc.out = 4 * Second

\* The worker's step calls move_to_dlq for its message: the failure branch
\* of _process_task, or the handler of an unregistered agent type.
CallsMoveToDlq(w) ==
    \/ WorkerRoute(w) /\ wout[w] # "success"
    \/ WorkerLookup(w) /\ wmsg[w].agent_type \notin agents

\* C22: a move_to_dlq call appends one entry {task_id, error, failed_at}
\* to the tail of the dead-letter queue and leaves the main queue, the
\* processing queue and the task records unchanged; no step of the
\* subsystem removes or changes an entry of the dead-letter queue.
C22_DlqAppendOnly ==
    [][/\ Len(broker'[DEAD_LETTER_QUEUE]) >= Len(Dlq)
       /\ SubSeq(broker'[DEAD_LETTER_QUEUE], 1, Len(Dlq)) = Dlq
       /\ \A w \in Workers :
              CallsMoveToDlq(w) =>
                 /\ Len(broker'[DEAD_LETTER_QUEUE]) = Len(Dlq) + 1
                 /\ LET e == broker'[DEAD_LETTER_QUEUE][Len(Dlq) + 1] IN
                        /\ DOMAIN e = {"task_id", "error", "failed_at"}
                        /\ e.task_id = wmsg[w].task_id
                        /\ e.error \in {HandlerError, UnknownError,
                                        NoAgentError}
                 /\ broker'[MAIN_QUEUE] = Main
                 /\ broker'[PROCESSING_QUEUE] = Processing
                 /\ store' = store]_vars

\* C22 witness: a worker has moved its task to the dead-letter queue, where
\* its entry is the last of two; the message is still on the processing
\* queue.
C22_Witness ==
    \E w \in Workers :
        /\ pc[w] = "done"
        /\ nDlq[w] = 1
        /\ Len(Dlq) = 2
        /\ Dlq[2].task_id = wmsg[w].task_id
        /\ Dlq[2].error = HandlerError
        /\ HasEntry(Processing, wmsg[w].task_id)

\* C27: when the processing of a message has ended with a move_to_dlq
\* call, a task_failed event has been published for it.
C27_DlqWithEvent ==
    \A w \in Workers :
        (pc[w] = "done" /\ nDlq[w] >= 1) => wpub[w] = TASK_FAILED

\* C28: created_at, started_at and completed_at of a task are each written
\* at most once.
C28_TimestampsOnce ==
    \A t \in TaskIds :
        /\ store[t].created_at <= 1
        /\ store[t].started_at <= 1
        /\ store[t].completed_at <= 1

\* C29: a task that is PENDING, IN_PROGRESS or COMPLETED has no
\* error_message.
C29_ErrorOnlyWhenFailed ==
    \A t \in TaskIds :
        store[t].status \in {PENDING, IN_PROGRESS, COMPLETED}
        => store[t].error_message = NoError

\* C23: while the orchestrator is running every worker is inside its loop,
\* whatever broker, store and handler failures it has met; a worker leaves
\* its loop only in a step taken when running is false.
C23_WorkersSurvive ==
    /\ [](running => \A w \in Workers : pc[w] \notin {"off", "exited"})
    /\ [][\A w \in Workers :
              (pc[w] # "exited" /\ pc'[w] = "exited") => ~running]_vars

\* C23 witness: the push onto the processing queue failed under a worker,
\* which lost the message it had taken; the orchestrator is running and
\* every worker is waiting in dequeue_task again.
C23_Witness ==
    /\ running
    /\ nextSeq = 2
    /\ Main = <<>>
    /\ Processing = <<>>
    /\ Dlq = <<>>
    /\ \A w \in Workers : pc[w] = "idle"

\* C30: the main queue never holds two messages for the same task id, and
\* no two workers are inside the handler of the same task at the same time.
C30_OneMessagePerTask ==
    \A t \in TaskIds :
        /\ Cardinality({i \in 1..Len(Main) : Main[i].task_id = t}) <= 1
        /\ Cardinality({w \in Workers : /\ pc[w] \in {"validate", "process"}
                                        /\ wmsg[w].task_id = t}) <= 1

\* C31: while the orchestrator is running, the worker coroutines that are
\* alive (created and not ended, so dequeuing again after each message or
\* timeout) are never more than max_workers, however start and stop calls
\* overlap.
C31_WorkersBounded ==
    running =>
        Cardinality({w \in Workers : pc[w] \notin {"off", "exited"}}) <= PoolSize

\* C32: a dequeue_task call that takes a message off the main queue either
\* returns that message to its caller or leaves it in one of the broker's
\* queues, the push onto the processing queue failing or not.
C32_NoMessageLost ==
    [][(/\ lastOp'.op = "dequeue_task"
        /\ Len(broker'[MAIN_QUEUE]) < Len(broker[MAIN_QUEUE]))
       => \/ lastOp'.value = "task_data"
          \/ \E q \in QueueNames : Head(broker[MAIN_QUEUE]) \in Range(broker'[q])]_vars

\* C33: a step that makes a task PENDING (the INSERT of create_task, the
\* reset of a fired delayed retry) leaves a message for that task in the
\* main queue, the broker failing under enqueue_task or not.
C33_PendingQueued ==
    [][\A t \in TaskIds :
          (store'[t].status = PENDING /\ store[t].status # PENDING)
          => HasEntry(broker'[MAIN_QUEUE], t)]_vars

\* C34: in a dispatch that no stop call cancels, a handler subscribed to the
\* channel from the start of the dispatch on is invoked at most once while
\* the dispatch runs and exactly once when it is over, whatever other
\* handlers are subscribed or unsubscribed in the meantime.
C34_StayersInvokedOnce ==
    \A l \in Listeners : \A h \in ldue[l] :
        /\ linv[l][h] <= 1
        /\ ldone[l] => linv[l][h] = 1

\* C35: an event published while the bus is running (start has returned,
\* no stop call is in progress) and a handler is subscribed to its type
\* reaches the listener, the handler having been subscribed before start
\* or after it.
C35_LateSubscriberHears ==
    [][(/\ nPublished' = nPublished + 1
        /\ busRunning /\ startCalls = 0 /\ busStop = "none"
        /\ handlers # <<>>)
       => inbox' = inbox + 1]_vars

\* C36: a listener inside its loop is always at a suspension point (waiting
\* in get_message or awaiting a handler), so that the other coroutines, a
\* stop call among them, get to run; it never runs its loop without
\* suspending.
C36_ListenerYields ==
    \A l \in Listeners :
        listeners[l] \in {"none", "ready", "waiting", "inhandler", "exited"}

\* C37: when a worker publishes task_completed for its task (the branch in
\* which it also calls complete_task), the task's row has status COMPLETED,
\* the store failing under update_task_status or not.
C37_CompletedWhenPublished ==
    [][\A w \in Workers :
          (wpub'[w] = TASK_COMPLETED /\ wpub[w] # TASK_COMPLETED)
          => store'[wmsg[w].task_id].status = COMPLETED]_vars

\* C38: when an entry is appended to the dead-letter queue, the row of its
\* task, if there is one, has status FAILED.
C38_FailedWhenDeadLettered ==
    [][Len(broker'[DEAD_LETTER_QUEUE]) = Len(Dlq) + 1
       => LET e == broker'[DEAD_LETTER_QUEUE][Len(Dlq) + 1]
          IN store'[e.task_id].status \in {FAILED, ABSENT}]_vars

\* C39: a retry_with_backoff call under max_attempts = k >= 1 that raised
\* the operation's error has invoked the operation k times and slept k - 1
\* times, the i-th sleep lasting calculate_delay(i - 1): it does not sleep
\* after the last invocation.
C39_NoWaitAfterLast ==
    (rwb.pc = "raised" /\ policy.max_attempts >= 1) =>
        /\ Len(rwb.hist) = policy.max_attempts
        /\ Len(rwb.slept) = policy.max_attempts - 1
        /\ \A i \in 1..Len(rwb.slept) :
               \E q \in Randoms : rwb.slept[i] = CalculateDelay(policy, i - 1, q)

====
